---- MODULE Spec2Model ----
(***************************************************************************)
(* Container-loading geometry and block-building engine (clp/base.py):     *)
(* Boxtype, Itemdict, Aabb, Space, FreeSpace and Block, modelled as state  *)
(* machines over small integer boxes.                                      *)
(***************************************************************************)
EXTENDS Integers, Sequences, FiniteSets, TLC

VARIABLES
    filling,             \* Space.filling (class attribute)
    vertical_stability,  \* Space.vertical_stability (class attribute)
    cont,                \* the container Block: l, w, h, volume, occupied_volume, weight, items
    aabbs,               \* cont.aabbs: the placed children, in placement order
    spaces,              \* cont.free_space.spaces: the live spaces, in list order
    children,            \* the blocks handed to add_block so far (call history)
    ret,                 \* value returned by the last closest_space call
    jself,               \* Block.join: the receiving block
    jblock,              \* Block.join: the argument block
    jcall,               \* Block.join: the dim and min_fr of the call
    jret,                \* Block.join: the returned value
    sA,                  \* subtract: the box subtracted from (self)
    sB,                  \* subtract: the box subtracted (aabb)
    sres,                \* subtract: the returned list
    items,               \* the item pool: the dict boxtype -> quantity, in key order
    blist,               \* the BlockList (or the list of blocks given to best)
    bcall,               \* the arguments of the call on the list or on the block
    bret,                \* the value that call returned, or what it raised
    pc                   \* position of the pure-function drivers

vars == <<filling, vertical_stability, cont, aabbs, spaces, children, ret,
          jself, jblock, jcall, jret, sA, sB, sres,
          items, blist, bcall, bret, pc>>

contVars == <<cont, aabbs, spaces, children, ret>>
joinVars == <<jself, jblock, jcall, jret>>
subVars  == <<sA, sB, sres>>
listVars == <<items, blist, bcall, bret>>

-----------------------------------------------------------------------------
(* Bounds of the model *)

MaxPlaced == 3      \* add_block calls per run
MaxFirstDim == 3    \* container dims of the single-placement runs: 1..MaxFirstDim
MaxCoord == 3       \* coordinates of the boxes given to subtract: 0..MaxCoord
MaxJoinVolume == 8  \* join is applied to receivers of volume below MaxJoinVolume

\* dims (l, w, h) of the containers the runs start from
ContDims == { <<2, 2, 2>>, <<2, 1, 3>> }

Fillings == {"origin", "bottom-up", "free"}

-----------------------------------------------------------------------------
(* Boxtype *)

BoxtypeInit(id, l, w, h, rot_l, rot_w, rot_h, weight) ==
    [id |-> id, l |-> l, w |-> w, h |-> h,
     rot_l |-> rot_l, rot_w |-> rot_w, rot_h |-> rot_h,
     weight |-> weight, volume |-> l * w * h]

\* the box types of the runs, keyed by id
Boxtypes ==
    [i \in {1, 2} |->
        IF i = 1 THEN BoxtypeInit(1, 1, 1, 1, TRUE, TRUE, TRUE, 1)
                 ELSE BoxtypeInit(2, 2, 1, 1, TRUE, TRUE, TRUE, 3)]

-----------------------------------------------------------------------------
(* Itemdict: a dict from box type (its id) to quantity; DOMAIN is the key set *)

EmptyItems == [k \in {} |-> 0]

ItemGet(d, k, default) == IF k \in DOMAIN d THEN d[k] ELSE default

\* Itemdict.__iadd__
ItemdictIadd(self, other) ==
    [k \in (DOMAIN self) \cup (DOMAIN other) |->
        IF k \in DOMAIN other THEN ItemGet(self, k, 0) + other[k] ELSE self[k]]

-----------------------------------------------------------------------------
(* Aabb *)

\* Aabb.__init__: "raise" marks the ValueError
AabbInit(xmin, xmax, ymin, ymax, zmin, zmax) ==
    IF xmax <= xmin \/ ymax <= ymin \/ zmax <= zmin
    THEN [raise |-> "ValueError"]
    ELSE [xmin |-> xmin, xmax |-> xmax, ymin |-> ymin, ymax |-> ymax,
          zmin |-> zmin, zmax |-> zmax]

AabbL(a) == a.xmax - a.xmin
AabbW(a) == a.ymax - a.ymin
AabbH(a) == a.zmax - a.zmin
AabbVolume(a) == AabbL(a) * AabbW(a) * AabbH(a)

strict_intersects(self, aabb) ==
    /\ self.xmin < aabb.xmax /\ self.xmax > aabb.xmin
    /\ self.ymin < aabb.ymax /\ self.ymax > aabb.ymin
    /\ self.zmin < aabb.zmax /\ self.zmax > aabb.zmin

intersects(self, aabb) ==
    /\ self.xmin <= aabb.xmax /\ self.xmax >= aabb.xmin
    /\ self.ymin <= aabb.ymax /\ self.ymax >= aabb.ymin
    /\ self.zmin <= aabb.zmax /\ self.zmax >= aabb.zmin

\* Aabb.__ge__: self contains aabb
AabbGe(self, aabb) ==
    /\ self.xmin <= aabb.xmin /\ self.xmax >= aabb.xmax
    /\ self.ymin <= aabb.ymin /\ self.ymax >= aabb.ymax
    /\ self.zmin <= aabb.zmin /\ self.zmax >= aabb.zmax

\* the list [e] when cond holds, [] otherwise: one "if ...: append" statement
AppendIf(cond, e) == IF cond THEN <<e>> ELSE <<>>

\* Aabb.subtract with the +x slab measured from the min side of aabb
AabbSubtractFromMin(self, aabb) ==
       AppendIf(aabb.xmax < self.xmax,
                AabbInit(aabb.xmin, self.xmax, self.ymin, self.ymax, self.zmin, self.zmax))
    \o AppendIf(aabb.ymax < self.ymax,
                AabbInit(self.xmin, self.xmax, aabb.ymax, self.ymax, self.zmin, self.zmax))
    \o AppendIf(aabb.zmax < self.zmax,
                AabbInit(self.xmin, self.xmax, self.ymin, self.ymax, aabb.zmax, self.zmax))
    \o AppendIf(aabb.xmin > self.xmin,
                AabbInit(self.xmin, aabb.xmin, self.ymin, self.ymax, self.zmin, self.zmax))
    \o AppendIf(aabb.ymin > self.ymin,
                AabbInit(self.xmin, self.xmax, self.ymin, aabb.ymin, self.zmin, self.zmax))
    \o AppendIf(aabb.zmin > self.zmin,
                AabbInit(self.xmin, self.xmax, self.ymin, self.ymax, self.zmin, aabb.zmin))

\* Aabb.subtract (first definition of the class)
AabbSubtract(self, aabb) ==
       AppendIf(aabb.xmax < self.xmax,
                AabbInit(aabb.xmax, self.xmax, self.ymin, self.ymax, self.zmin, self.zmax))
    \o AppendIf(aabb.ymax < self.ymax,
                AabbInit(self.xmin, self.xmax, aabb.ymax, self.ymax, self.zmin, self.zmax))
    \o AppendIf(aabb.zmax < self.zmax,
                AabbInit(self.xmin, self.xmax, self.ymin, self.ymax, aabb.zmax, self.zmax))
    \o AppendIf(aabb.xmin > self.xmin,
                AabbInit(self.xmin, aabb.xmin, self.ymin, self.ymax, self.zmin, self.zmax))
    \o AppendIf(aabb.ymin > self.ymin,
                AabbInit(self.xmin, self.xmax, self.ymin, aabb.ymin, self.zmin, self.zmax))
    \o AppendIf(aabb.zmin > self.zmin,
                AabbInit(self.xmin, self.xmax, self.ymin, self.ymax, self.zmin, aabb.zmin))

-----------------------------------------------------------------------------
(* Space *)

\* the Block a Space refers to: which object it is, and the dims __init__ reads
BlockRef(kind, b) == [kind |-> kind, l |-> b.l, w |-> b.w, h |-> b.h]

\* Space.__init__ scaling zmin by 1000 under every filling but "free"
SpaceInitScaledZ(xmin, xmax, ymin, ymax, zmin, zmax, block) ==
    IF xmax <= xmin \/ ymax <= ymin \/ zmax <= zmin
    THEN [raise |-> "ValueError"]
    ELSE
    LET nearx == block.l - xmax < xmin /\ filling # "origin"
        neary == block.w - ymax < ymin /\ filling # "origin"
        nearz == block.h - zmax < zmin /\ filling = "free"
        xdist == IF nearx THEN block.l - xmax ELSE xmin
        ydist == IF neary THEN block.w - ymax ELSE ymin
        zdist == IF nearz THEN block.h - zmax
                 ELSE IF filling # "free" THEN 1000 * zmin ELSE zmin
    IN  [xmin |-> xmin, xmax |-> xmax, ymin |-> ymin, ymax |-> ymax,
         zmin |-> zmin, zmax |-> zmax,
         container_block |-> block,
         corner_point |-> << IF nearx THEN xmax ELSE xmin,
                             IF neary THEN ymax ELSE ymin,
                             IF nearz THEN zmax ELSE zmin >>,
         manhattan |-> xdist + ydist + zdist]

\* Space.__init__
SpaceInit(xmin, xmax, ymin, ymax, zmin, zmax, block) ==
    IF xmax <= xmin \/ ymax <= ymin \/ zmax <= zmin
    THEN [raise |-> "ValueError"]
    ELSE
    LET nearx == block.l - xmax < xmin /\ filling # "origin"
        neary == block.w - ymax < ymin /\ filling # "origin"
        nearz == block.h - zmax < zmin /\ filling = "free"
        xdist == IF nearx THEN block.l - xmax ELSE xmin
        ydist == IF neary THEN block.w - ymax ELSE ymin
        zdist == IF nearz THEN block.h - zmax
                 ELSE IF filling = "bottom-up" THEN 1000 * zmin ELSE zmin
    IN  [xmin |-> xmin, xmax |-> xmax, ymin |-> ymin, ymax |-> ymax,
         zmin |-> zmin, zmax |-> zmax,
         container_block |-> block,
         corner_point |-> << IF nearx THEN xmax ELSE xmin,
                             IF neary THEN ymax ELSE ymin,
                             IF nearz THEN zmax ELSE zmin >>,
         manhattan |-> xdist + ydist + zdist]

\* Space.subtract with the test of vertical_stability inverted
SpaceSubtractInverted(self, aabb, container_block) ==
       AppendIf(aabb.xmax < self.xmax,
                SpaceInit(aabb.xmax, self.xmax, self.ymin, self.ymax, self.zmin, self.zmax, container_block))
    \o AppendIf(aabb.ymax < self.ymax,
                SpaceInit(self.xmin, self.xmax, aabb.ymax, self.ymax, self.zmin, self.zmax, container_block))
    \o AppendIf(aabb.zmax < self.zmax,
                IF vertical_stability
                THEN SpaceInit(self.xmin, self.xmax, self.ymin, self.ymax, aabb.zmax, self.zmax, container_block)
                ELSE SpaceInit(aabb.xmin, aabb.xmax, aabb.ymin, aabb.ymax, aabb.zmax, self.zmax, container_block))
    \o AppendIf(aabb.xmin > self.xmin,
                SpaceInit(self.xmin, aabb.xmin, self.ymin, self.ymax, self.zmin, self.zmax, container_block))
    \o AppendIf(aabb.ymin > self.ymin,
                SpaceInit(self.xmin, self.xmax, self.ymin, aabb.ymin, self.zmin, self.zmax, container_block))
    \o AppendIf(aabb.zmin > self.zmin,
                SpaceInit(self.xmin, self.xmax, self.ymin, self.ymax, self.zmin, aabb.zmin, container_block))

\* Space.subtract
SpaceSubtract(self, aabb, container_block) ==
       AppendIf(aabb.xmax < self.xmax,
                SpaceInit(aabb.xmax, self.xmax, self.ymin, self.ymax, self.zmin, self.zmax, container_block))
    \o AppendIf(aabb.ymax < self.ymax,
                SpaceInit(self.xmin, self.xmax, aabb.ymax, self.ymax, self.zmin, self.zmax, container_block))
    \o AppendIf(aabb.zmax < self.zmax,
                IF ~vertical_stability
                THEN SpaceInit(self.xmin, self.xmax, self.ymin, self.ymax, aabb.zmax, self.zmax, container_block)
                ELSE SpaceInit(aabb.xmin, aabb.xmax, aabb.ymin, aabb.ymax, aabb.zmax, self.zmax, container_block))
    \o AppendIf(aabb.xmin > self.xmin,
                SpaceInit(self.xmin, aabb.xmin, self.ymin, self.ymax, self.zmin, self.zmax, container_block))
    \o AppendIf(aabb.ymin > self.ymin,
                SpaceInit(self.xmin, self.xmax, self.ymin, aabb.ymin, self.zmin, self.zmax, container_block))
    \o AppendIf(aabb.zmin > self.zmin,
                SpaceInit(self.xmin, self.xmax, self.ymin, self.ymax, self.zmin, aabb.zmin, container_block))

-----------------------------------------------------------------------------
(* FreeSpace *)

\* list.sort(key=volume, reverse=True): stable, largest volume first
RECURSIVE InsertByVolume(_, _)
InsertByVolume(s, e) ==
    IF s = <<>> THEN <<e>>
    ELSE IF AabbVolume(Head(s)) >= AabbVolume(e)
         THEN <<Head(s)>> \o InsertByVolume(Tail(s), e)
         ELSE <<e>> \o s

RECURSIVE SortByVolume(_)
SortByVolume(s) ==
    IF s = <<>> THEN <<>>
    ELSE InsertByVolume(SortByVolume(SubSeq(s, 1, Len(s) - 1)), s[Len(s)])

\* the elements of s whose index is not in drop, in order
RECURSIVE DropIndices(_, _, _)
DropIndices(s, drop, i) ==
    IF i > Len(s) THEN <<>>
    ELSE (IF i \in drop THEN <<>> ELSE <<s[i]>>) \o DropIndices(s, drop, i + 1)

\* FreeSpace.remove_nonmaximal_spaces
remove_nonmaximal_spaces(list) ==
    LET sorted == SortByVolume(list)
        to_remove == { j \in 1..Len(sorted) :
                         \E i \in 1..(j - 1) : AabbGe(sorted[i], sorted[j]) }
    IN  DropIndices(sorted, to_remove, 1)

\* the loop of crop without its else branch: a space that only touches aabb is
\* removed and not put back
RECURSIVE CropNewSpacesStrictOnly(_, _, _, _)
CropNewSpacesStrictOnly(list, aabb, container_block, i) ==
    IF i > Len(list) THEN <<>>
    ELSE (IF intersects(list[i], aabb) /\ strict_intersects(list[i], aabb)
          THEN SpaceSubtract(list[i], aabb, container_block)
          ELSE <<>>)
         \o CropNewSpacesStrictOnly(list, aabb, container_block, i + 1)

\* the body of the loop of crop, over the spaces from index i on
RECURSIVE CropNewSpaces(_, _, _, _)
CropNewSpaces(list, aabb, container_block, i) ==
    IF i > Len(list) THEN <<>>
    ELSE (IF intersects(list[i], aabb)
          THEN IF strict_intersects(list[i], aabb)
               THEN SpaceSubtract(list[i], aabb, container_block)
               ELSE <<list[i]>>
          ELSE <<>>)
         \o CropNewSpaces(list, aabb, container_block, i + 1)

\* FreeSpace.crop: the new value of self.spaces
crop(list, aabb, container_block) ==
    LET new_spaces == CropNewSpaces(list, aabb, container_block, 1)
        kept == SelectSeq(list, LAMBDA s : ~intersects(s, aabb))
    IN  kept \o remove_nonmaximal_spaces(new_spaces)

None == [kind |-> "None"]
Unset == [kind |-> "unset"]

\* min taking the last space of least manhattan
RECURSIVE MinByManhattanLast(_, _, _)
MinByManhattanLast(list, i, best) ==
    IF i > Len(list) THEN best
    ELSE MinByManhattanLast(list, i + 1,
                            IF list[i].manhattan <= best.manhattan THEN list[i] ELSE best)

\* min(spaces, key=manhattan): the first space of least manhattan
RECURSIVE MinByManhattan(_, _, _)
MinByManhattan(list, i, best) ==
    IF i > Len(list) THEN best
    ELSE MinByManhattan(list, i + 1,
                        IF list[i].manhattan < best.manhattan THEN list[i] ELSE best)

\* FreeSpace.closest_space
closest_space(list) ==
    IF list = <<>> THEN None
    ELSE [kind |-> "Space", space |-> MinByManhattan(list, 2, list[1])]

-----------------------------------------------------------------------------
(* Block *)

Rots == { <<"l", "w", "h">>, <<"w", "h", "l">>, <<"h", "w", "l">>,
          <<"l", "h", "w">>, <<"h", "l", "w">>, <<"w", "l", "h">> }

\* the assignments of _initialize_from_boxtype to one of l, w, h
RotDim(boxtype, c) ==
    IF c = "w" THEN boxtype.w
    ELSE IF c = "l" THEN boxtype.l
    ELSE IF c = "h" THEN boxtype.h
    ELSE 0

\* Block(boxtype, rot): Block._initialize_from_boxtype
InitializeFromBoxtype(boxtype, rot) ==
    [l |-> RotDim(boxtype, rot[1]),
     w |-> RotDim(boxtype, rot[2]),
     h |-> RotDim(boxtype, rot[3]),
     weight |-> boxtype.weight,
     occupied_volume |-> boxtype.volume,
     volume |-> boxtype.volume,
     items |-> [k \in {boxtype.id} |-> 1]]

\* Block(l=, w=, h=): the empty container
BlockCustom(l, w, h) ==
    [l |-> l, w |-> w, h |-> h, volume |-> l * w * h,
     occupied_volume |-> 0, weight |-> 0, items |-> EmptyItems]

\* the free space of the empty container with l and w exchanged
BlockCustomSpacesSwapped(b) ==
    << SpaceInit(0, b.w, 0, b.l, 0, b.h, BlockRef("container", b)) >>

\* the free space of the empty container
BlockCustomSpaces(b) ==
    << SpaceInit(0, b.l, 0, b.w, 0, b.h, BlockRef("container", b)) >>

Max2(a, b) == IF a >= b THEN a ELSE b

\* Block.join adopting the new dims before the fill ratio is tested
JoinBlockEarlyDims(self, block, dim, min_fr) ==
    IF dim \notin {"x", "y", "z"} THEN [ret |-> FALSE, self |-> self, block |-> block]
    ELSE
    LET l == IF dim = "x" THEN self.l + block.l ELSE Max2(self.l, block.l)
        w == IF dim = "y" THEN self.w + block.w ELSE Max2(self.w, block.w)
        h == IF dim = "z" THEN self.h + block.h ELSE Max2(self.h, block.h)
        new_volume == l * w * h
    IN  IF new_volume = 0 THEN [raise |-> "ZeroDivisionError"]
        ELSE IF (self.occupied_volume + block.occupied_volume) * min_fr[2]
                  < min_fr[1] * new_volume
        THEN [ret |-> FALSE, block |-> block,
              self |-> [self EXCEPT !.l = l, !.w = w, !.h = h, !.volume = new_volume]]
        ELSE [ret |-> TRUE, block |-> block,
              self |-> [l |-> l, w |-> w, h |-> h,
                        volume |-> new_volume,
                        weight |-> self.weight + block.weight,
                        occupied_volume |-> self.occupied_volume + block.occupied_volume,
                        items |-> ItemdictIadd(self.items, block.items)]]

\* Block.join taking the max, not the sum, along z
JoinBlockMaxAlongZ(self, block, dim, min_fr) ==
    IF dim \notin {"x", "y", "z"} THEN [ret |-> FALSE, self |-> self, block |-> block]
    ELSE
    LET l == IF dim = "x" THEN self.l + block.l ELSE Max2(self.l, block.l)
        w == IF dim = "y" THEN self.w + block.w ELSE Max2(self.w, block.w)
        h == Max2(self.h, block.h)
        new_volume == l * w * h
    IN  IF new_volume = 0 THEN [raise |-> "ZeroDivisionError"]
        ELSE IF (self.occupied_volume + block.occupied_volume) * min_fr[2]
                  < min_fr[1] * new_volume
        THEN [ret |-> FALSE, self |-> self, block |-> block]
        ELSE [ret |-> TRUE, block |-> block,
              self |-> [l |-> l, w |-> w, h |-> h,
                        volume |-> new_volume,
                        weight |-> self.weight + block.weight,
                        occupied_volume |-> self.occupied_volume + block.occupied_volume,
                        items |-> ItemdictIadd(self.items, block.items)]]

\* Block.join: the returned value, and the receiver and the argument after the
\* call. min_fr is the fraction min_fr[1] / min_fr[2]
JoinBlock(self, block, dim, min_fr) ==
    IF dim \notin {"x", "y", "z"} THEN [ret |-> FALSE, self |-> self, block |-> block]
    ELSE
    LET l == IF dim = "x" THEN self.l + block.l ELSE Max2(self.l, block.l)
        w == IF dim = "y" THEN self.w + block.w ELSE Max2(self.w, block.w)
        h == IF dim = "z" THEN self.h + block.h ELSE Max2(self.h, block.h)
        new_volume == l * w * h
    IN  IF new_volume = 0 THEN [raise |-> "ZeroDivisionError"]
        ELSE IF (self.occupied_volume + block.occupied_volume) * min_fr[2]
                  < min_fr[1] * new_volume
        THEN [ret |-> FALSE, self |-> self, block |-> block]
        ELSE [ret |-> TRUE, block |-> block,
              self |-> [l |-> l, w |-> w, h |-> h,
                        volume |-> new_volume,
                        weight |-> self.weight + block.weight,
                        occupied_volume |-> self.occupied_volume + block.occupied_volume,
                        items |-> ItemdictIadd(self.items, block.items)]]

Dims == {"x", "y", "z"}
DefaultMinFr == <<98, 100>>
MinFrs == { DefaultMinFr, <<1, 2>> }

\* the blocks of one box type, one per rotation
LeafBlocks(i) == { InitializeFromBoxtype(Boxtypes[i], r) : r \in Rots }

\* the blocks a successful join of a block of the first box with one of the second gives
JoinedBlocks ==
    { JoinBlock(q[1], q[2], q[3], q[4]).self :
        q \in { c \in LeafBlocks(1) \X LeafBlocks(2) \X Dims \X MinFrs :
                    JoinBlock(c[1], c[2], c[3], c[4]).ret } }

\* the blocks handed to add_block
Candidates == LeafBlocks(1) \cup LeafBlocks(2) \cup JoinedBlocks

\* add_block counting the volume of the child, not its occupied volume
AddBlockFieldsByVolume(self, block) ==
    [self EXCEPT
        !.occupied_volume = @ + block.volume,
        !.weight = @ + block.weight,
        !.items = ItemdictIadd(@, block.items)]

\* the scalar fields of the receiver after add_block
AddBlockFields(self, block) ==
    [self EXCEPT
        !.occupied_volume = @ + block.occupied_volume,
        !.weight = @ + block.weight,
        !.items = ItemdictIadd(@, block.items)]

\* Block.add_block
AddBlock(block, x, y, z) ==
    LET aabb == AabbInit(x, x + block.l, y, y + block.w, z, z + block.h)
    IN  /\ aabbs' = Append(aabbs, aabb)
        /\ cont' = AddBlockFields(cont, block)
        /\ spaces' = crop(spaces, aabb, BlockRef("child", block))
        /\ children' = Append(children, block)
        /\ ret' = Unset
        /\ UNCHANGED <<filling, vertical_stability, joinVars, subVars, listVars, pc>>

\* the caller's precondition of add_block: the child fits inside a live space
FitsLiveSpace(block, x, y, z) ==
    \E i \in 1..Len(spaces) :
        AabbGe(spaces[i], AabbInit(x, x + block.l, y, y + block.w, z, z + block.h))

\* a call of cont.free_space.closest_space()
ClosestSpace ==
    /\ ret = Unset
    /\ ret' = closest_space(spaces)
    /\ UNCHANGED <<filling, vertical_stability, cont, aabbs, spaces, children,
                   joinVars, subVars, listVars, pc>>

NoBlock == BlockCustom(1, 1, 1)
NoAabb == AabbInit(0, 1, 0, 1, 0, 1)

\* the variables of the drivers a run does not use
IdleCont ==
    /\ cont = NoBlock /\ aabbs = <<>> /\ spaces = <<>> /\ children = <<>> /\ ret = Unset
IdleJoin == jself = NoBlock /\ jblock = NoBlock /\ jcall = <<>> /\ jret = Unset
IdleSub == sA = NoAabb /\ sB = NoAabb /\ sres = <<>>
IdleList == items = <<>> /\ blist = <<>> /\ bcall = <<>> /\ bret = Unset

\* an empty container of dims l, w, h under some filling and vertical_stability
InitContainer(dims) ==
    /\ filling \in Fillings
    /\ vertical_stability \in BOOLEAN
    /\ \E d \in dims :
          /\ cont = BlockCustom(d[1], d[2], d[3])
          /\ spaces = BlockCustomSpaces(BlockCustom(d[1], d[2], d[3]))
    /\ aabbs = <<>>
    /\ children = <<>>
    /\ ret = Unset

Init ==
    /\ InitContainer(ContDims)
    /\ IdleJoin /\ IdleSub /\ IdleList
    /\ pc = "container"

\* add_block with any candidate block at any position inside a live space
AddBlockStep ==
    \E block \in Candidates :
      \E x \in 0..(cont.l - 1), y \in 0..(cont.w - 1), z \in 0..(cont.h - 1) :
         /\ Len(aabbs) < MaxPlaced
         /\ FitsLiveSpace(block, x, y, z)
         /\ AddBlock(block, x, y, z)

Next ==
    \/ AddBlockStep
    \/ ClosestSpace

Spec == Init /\ [][Next]_vars

(* The first placement, over containers of every size up to MaxFirstDim *)

FirstDims == (1..MaxFirstDim) \X (1..MaxFirstDim) \X (1..MaxFirstDim)

InitFirst ==
    /\ InitContainer(FirstDims)
    /\ IdleJoin /\ IdleSub /\ IdleList
    /\ pc = "first"

AddFirstBlock ==
    \E block \in Candidates :
      \E x \in 0..(cont.l - 1), y \in 0..(cont.w - 1), z \in 0..(cont.h - 1) :
         /\ Len(aabbs) = 0
         /\ FitsLiveSpace(block, x, y, z)
         /\ AddBlock(block, x, y, z)

NextFirst ==
    \/ AddFirstBlock
    \/ ClosestSpace

SpecFirst == InitFirst /\ [][NextFirst]_vars

(* Placements at the corners of the live spaces, in containers whose length *)
(* passes the factor 1000 of the bottom-up priority                         *)

\* dims (l, w, h) of these containers
LayerDims == { <<1004, 1, 2>>, <<1003, 2, 1>> }

\* their box types: a unit box and a long one, neither to be rotated
LayerBoxtypes ==
    { BoxtypeInit(1, 1, 1, 1, FALSE, FALSE, FALSE, 1),
      BoxtypeInit(2, 1002, 1, 1, FALSE, FALSE, FALSE, 1) }

\* their blocks: Block(boxtype, "lwh")
LayerBlocks == { InitializeFromBoxtype(b, <<"l", "w", "h">>) : b \in LayerBoxtypes }

InitLayer ==
    /\ InitContainer(LayerDims)
    /\ IdleJoin /\ IdleSub /\ IdleList
    /\ pc = "layer"

\* add_block with a block that fits a live space, in one of its corners
AddBlockAtCorner ==
    \E block \in LayerBlocks : \E i \in 1..Len(spaces) :
      \E x \in {spaces[i].xmin, spaces[i].xmax - block.l},
         y \in {spaces[i].ymin, spaces[i].ymax - block.w},
         z \in {spaces[i].zmin, spaces[i].zmax - block.h} :
         /\ Len(aabbs) < MaxPlaced
         /\ AabbGe(spaces[i], AabbInit(x, x + block.l, y, y + block.w, z, z + block.h))
         /\ AddBlock(block, x, y, z)

NextLayer ==
    \/ AddBlockAtCorner
    \/ ClosestSpace

SpecLayer == InitLayer /\ [][NextLayer]_vars

-----------------------------------------------------------------------------
(* Block.join applied to pairs of blocks *)

\* the axis arguments: the three axes and one that is none of them
JoinDims == Dims \cup {"w"}

InitJoin ==
    /\ filling = "origin" /\ vertical_stability = TRUE
    /\ IdleCont /\ IdleSub /\ IdleList
    /\ jself \in Candidates
    /\ jblock \in Candidates
    /\ jcall = <<>>
    /\ jret = Unset
    /\ pc = "join"

\* jself.join(jblock, dim, min_fr)
Join(dim, min_fr) ==
    LET r == JoinBlock(jself, jblock, dim, min_fr)
    IN  /\ "ret" \in DOMAIN r
        /\ jself' = r.self
        /\ jblock' = r.block
        /\ jret' = r.ret
        /\ jcall' = <<dim, min_fr>>
        /\ UNCHANGED <<filling, vertical_stability, contVars, subVars, listVars, pc>>

JoinStep ==
    \E dim \in JoinDims, min_fr \in MinFrs :
        /\ jself.volume < MaxJoinVolume
        /\ Join(dim, min_fr)

NextJoin == JoinStep

SpecJoin == InitJoin /\ [][NextJoin]_vars

-----------------------------------------------------------------------------
(* Aabb.subtract and Space.subtract applied to pairs of boxes *)

Intervals == { <<a, b>> \in (0..MaxCoord) \X (0..MaxCoord) : a < b }

Boxes == { AabbInit(x[1], x[2], y[1], y[2], z[1], z[2]) :
             x \in Intervals, y \in Intervals, z \in Intervals }

\* the pairs of the scenario of the cube 2..8 inside the cube 0..10
CubeA == AabbInit(0, 10, 0, 10, 0, 10)
CubeB == AabbInit(2, 8, 2, 8, 2, 8)

\* the pairs (self, aabb) crop calls subtract with: aabb strict-intersects self
SubPairs == { p \in Boxes \X Boxes : strict_intersects(p[1], p[2]) }

\* the pairs (self, aabb) of Space.subtract: those, and every aabb whose top is
\* below the top of self
SpacePairs ==
    { p \in Boxes \X Boxes : strict_intersects(p[1], p[2]) \/ p[2].zmax < p[1].zmax }

InitAabb ==
    /\ filling = "origin" /\ vertical_stability = TRUE
    /\ IdleCont /\ IdleJoin /\ IdleList
    /\ \E p \in SubPairs \cup { <<CubeA, CubeB>> } : sA = p[1] /\ sB = p[2]
    /\ sres = <<>>
    /\ pc = "aabb"

\* sres = sA.subtract(sB), Aabb.subtract
AabbSubtractStep ==
    /\ pc = "aabb"
    /\ sres' = AabbSubtract(sA, sB)
    /\ pc' = "aabb_done"
    /\ UNCHANGED <<filling, vertical_stability, contVars, joinVars, listVars, sA, sB>>

NextAabb == AabbSubtractStep

SpecAabb == InitAabb /\ [][NextAabb]_vars

\* the container block handed to Space.subtract
SubContainer == BlockRef("container", BlockCustom(MaxCoord, MaxCoord, MaxCoord))

InitSpace ==
    /\ filling = "origin"
    /\ vertical_stability \in BOOLEAN
    /\ IdleCont /\ IdleJoin /\ IdleList
    /\ \E p \in SpacePairs : sA = p[1] /\ sB = p[2]
    /\ sres = <<>>
    /\ pc = "space"

\* sres = sA.subtract(sB, container), Space.subtract
SpaceSubtractStep ==
    /\ pc = "space"
    /\ sres' = SpaceSubtract(sA, sB, SubContainer)
    /\ pc' = "space_done"
    /\ UNCHANGED <<filling, vertical_stability, contVars, joinVars, listVars, sA, sB>>

NextSpace == SpaceSubtractStep

SpecSpace == InitSpace /\ [][NextSpace]_vars

-----------------------------------------------------------------------------
(* BlockList *)

\* generate_simple_blocks with the first orientation appended under rot_h,
\* as the five others are under their flags
SimpleRotsGuarded(item) ==
       (IF item.rot_h THEN << <<"l", "w", "h">> >> ELSE <<>>)
    \o (IF item.rot_l THEN << <<"w", "h", "l">>, <<"h", "w", "l">> >> ELSE <<>>)
    \o (IF item.rot_w THEN << <<"l", "h", "w">>, <<"h", "l", "w">> >> ELSE <<>>)
    \o (IF item.rot_h THEN << <<"w", "l", "h">> >> ELSE <<>>)

\* the rot strings generate_simple_blocks builds a Block with for one item, in order
SimpleRots(item) ==
       << <<"l", "w", "h">> >>
    \o (IF item.rot_l THEN << <<"w", "h", "l">>, <<"h", "w", "l">> >> ELSE <<>>)
    \o (IF item.rot_w THEN << <<"l", "h", "w">>, <<"h", "l", "w">> >> ELSE <<>>)
    \o (IF item.rot_h THEN << <<"w", "l", "h">> >> ELSE <<>>)

\* BlockList.generate_simple_blocks: self after the loop over the keys of its,
\* from key i on
RECURSIVE generate_simple_blocks(_, _, _)
generate_simple_blocks(self, its, i) ==
    IF i > Len(its) THEN self
    ELSE generate_simple_blocks(
            self \o [r \in 1..Len(SimpleRots(its[i].boxtype)) |->
                        InitializeFromBoxtype(its[i].boxtype, SimpleRots(its[i].boxtype)[r])],
            its, i + 1)

\* BlockList.generate_general_blocks: self when the call ends, and how it ends.
\* The body of the loops names Block.generate_blocks, which Block does not have.
generate_general_blocks(self, its, container, min_fr, max_bl) ==
    LET B == generate_simple_blocks(self, its, 1)
    IN  IF Len(B) < max_bl /\ Len(B) > 0
        THEN [list |-> B, ret |-> [raise |-> "AttributeError"]]
        ELSE [list |-> B, ret |-> None]

\* BlockList.__init__: the list after construction and what the constructor raised
BlockListInit(its, type, container, min_fr, max_bl) ==
    IF type = "simple_blocks"
    THEN [list |-> generate_simple_blocks(<<>>, its, 1), ret |-> None]
    ELSE IF type = "general_blocks"
    THEN generate_general_blocks(<<>>, its, container, min_fr, max_bl)
    ELSE [list |-> <<>>, ret |-> None]

MaxBlDefault == 10000

\* the box types of the item pools given to BlockList
ListBoxDims == { <<1, 2, 3>>, <<2, 2, 1>> }
Flags == BOOLEAN \X BOOLEAN \X BOOLEAN
FirstTypes ==
    { BoxtypeInit(1, d[1], d[2], d[3], f[1], f[2], f[3], 1) : d \in ListBoxDims, f \in Flags }
SecondTypes ==
    { BoxtypeInit(2, 1, 1, 2, f[1], f[2], f[3], 2) : f \in Flags }

\* the item pools: no, one or two box types, quantities included
ListItems ==
    { <<>> }
    \cup { << [boxtype |-> a, qty |-> q] >> : a \in FirstTypes, q \in {0, 2} }
    \cup { << [boxtype |-> a, qty |-> 2], [boxtype |-> b, qty |-> 1] >> :
              a \in FirstTypes, b \in SecondTypes }

ListTypes == {"simple_blocks", "general_blocks", "blocks"}

\* the container block given as cont
ListCont == BlockCustom(2, 2, 2)
ListMaxBl == {0, 4, MaxBlDefault}

InitList ==
    /\ filling = "origin" /\ vertical_stability = TRUE
    /\ IdleCont /\ IdleJoin /\ IdleSub
    /\ items \in ListItems
    /\ blist = <<>>
    /\ bcall = <<>>
    /\ bret = Unset
    /\ pc = "list"

\* blist = BlockList(items, type, cont, min_fr, max_bl)
BlockListStep ==
    \E type \in ListTypes, max_bl \in ListMaxBl :
        LET r == BlockListInit(items, type, ListCont, DefaultMinFr, max_bl)
        IN  /\ pc = "list"
            /\ type # "general_blocks" => max_bl = MaxBlDefault
            /\ blist' = r.list
            /\ bret' = r.ret
            /\ bcall' = [type |-> type, max_bl |-> max_bl]
            /\ pc' = "list_done"
            /\ UNCHANGED <<filling, vertical_stability, contVars, joinVars, subVars, items>>

NextList == BlockListStep

SpecList == InitList /\ [][NextList]_vars

-----------------------------------------------------------------------------
(* Block.is_constructible *)

\* the keys of the pool its, and its[k] for a key k of it
PoolKeys(its) == { its[n].boxtype.id : n \in 1..Len(its) }
PoolQty(its, k) == its[CHOOSE n \in 1..Len(its) : its[n].boxtype.id = k].qty

\* dict.get(k, default) on the pool
PoolGet(its, k, default) == IF k \in PoolKeys(its) THEN PoolQty(its, k) ELSE default

\* Block.is_constructible: the loop over the keys of self.items, which the dict
\* yields in the order `order`, from key i on; items[item] raises KeyError
\* for a key the pool does not have
RECURSIVE is_constructible(_, _, _, _)
is_constructible(self, order, its, i) ==
    IF i > Len(order) THEN [ret |-> TRUE]
    ELSE IF order[i] \notin PoolKeys(its) THEN [raise |-> "KeyError"]
    ELSE IF PoolQty(its, order[i]) < self.items[order[i]] THEN [ret |-> FALSE]
    ELSE is_constructible(self, order, its, i + 1)

MaxQty == 2   \* quantities of the pools: 0..MaxQty

\* the orders a dict of key set d can yield its keys in
KeyOrders(d) ==
    { o \in [1..Cardinality(d) -> d] : \A i, j \in 1..Cardinality(d) : i # j => o[i] # o[j] }

\* the blocks is_constructible is called on: the candidates, and the joins of two
\* of them along x
ConstructibleBlocks ==
    Candidates
    \cup { JoinBlock(q[1], q[2], "x", <<1, 2>>).self :
             q \in { c \in Candidates \X Candidates :
                        JoinBlock(c[1], c[2], "x", <<1, 2>>).ret } }

\* the pools: any of the two box types, any quantity up to MaxQty
Pools ==
    { <<>> }
    \cup { << [boxtype |-> Boxtypes[k], qty |-> q] >> : k \in {1, 2}, q \in 0..MaxQty }
    \cup { << [boxtype |-> Boxtypes[1], qty |-> q], [boxtype |-> Boxtypes[2], qty |-> r] >> :
              q \in 0..MaxQty, r \in 0..MaxQty }

InitConstructible ==
    /\ filling = "origin" /\ vertical_stability = TRUE
    /\ IdleCont /\ IdleJoin /\ IdleSub
    /\ items \in Pools
    /\ blist = <<>>
    /\ \E b \in ConstructibleBlocks : \E o \in KeyOrders(DOMAIN b.items) :
          bcall = [block |-> b, order |-> o]
    /\ bret = Unset
    /\ pc = "constructible"

\* bret = block.is_constructible(items)
IsConstructibleStep ==
    /\ pc = "constructible"
    /\ bret' = is_constructible(bcall.block, bcall.order, items, 1)
    /\ pc' = "constructible_done"
    /\ UNCHANGED <<filling, vertical_stability, contVars, joinVars, subVars,
                   items, blist, bcall>>

NextConstructible == IsConstructibleStep

SpecConstructible == InitConstructible /\ [][NextConstructible]_vars

-----------------------------------------------------------------------------
(* BlockList.best *)

\* float("-inf"): below every value an evaluation of the model returns
NegInf == -1

\* all(ctr(block, space, cont) for ctr in ctr_functions), the outcomes of the
\* constraint functions on the block being block.ctr
AllCtr(block) == \A c \in 1..Len(block.ctr) : block.ctr[c]

\* best replacing the block held on ev >= best_eval
RECURSIVE bestOfLast(_, _, _, _)
bestOfLast(blocks, i, best_block, best_eval) ==
    IF i > Len(blocks) THEN best_block
    ELSE IF AllCtr(blocks[i]) /\ blocks[i].ev >= best_eval
         THEN bestOfLast(blocks, i + 1, [kind |-> "Block", index |-> i], blocks[i].ev)
         ELSE bestOfLast(blocks, i + 1, best_block, best_eval)

\* BlockList.best: the loop from block i on. A block is its place in the list,
\* the value eval_function gives it and the outcomes of the constraints on it
RECURSIVE bestOf(_, _, _, _)
bestOf(blocks, i, best_block, best_eval) ==
    IF i > Len(blocks) THEN best_block
    ELSE IF AllCtr(blocks[i]) /\ blocks[i].ev > best_eval
         THEN bestOf(blocks, i + 1, [kind |-> "Block", index |-> i], blocks[i].ev)
         ELSE bestOf(blocks, i + 1, best_block, best_eval)

\* BlockList.best
best(blocks) == bestOf(blocks, 1, None, NegInf)

MaxBlocks == 3   \* length of the list given to best
MaxEval == 2     \* finite values of eval_function: 0..MaxEval

\* the lengths of ctr_functions
CtrCounts == {0, 1, 2}

\* the values eval_function returns
EvalValues == {NegInf} \cup (0..MaxEval)

\* the lists of blocks under n constraint functions
BestLists(n) ==
    UNION { [1..k -> [ev : EvalValues, ctr : [1..n -> BOOLEAN]]] : k \in 0..MaxBlocks }

InitBest ==
    /\ filling = "origin" /\ vertical_stability = TRUE
    /\ IdleCont /\ IdleJoin /\ IdleSub
    /\ items = <<>>
    /\ \E n \in CtrCounts :
          /\ bcall = [nctr |-> n]
          /\ blist \in BestLists(n)
    /\ bret = Unset
    /\ pc = "best"

\* bret = BlockList.best(blist, space, cont, eval_function, ctr_functions)
BestStep ==
    /\ pc = "best"
    /\ bret' = best(blist)
    /\ pc' = "best_done"
    /\ UNCHANGED <<filling, vertical_stability, contVars, joinVars, subVars,
                   items, blist, bcall>>

NextBest == BestStep

SpecBest == InitBest /\ [][NextBest]_vars

-----------------------------------------------------------------------------
(* Properties of the container after add_block calls *)

Coords(a) == <<a.xmin, a.xmax, a.ymin, a.ymax, a.zmin, a.zmax>>

\* a is a strict subset of b
StrictSubset(a, b) == AabbGe(b, a) /\ Coords(a) # Coords(b)

RECURSIVE SumSeq(_, _)
SumSeq(s, i) == IF i > Len(s) THEN 0 ELSE s[i] + SumSeq(s, i + 1)

\* C1: after any sequence of add_block calls (child inside a live space, either
\* vertical_stability), no live space is a strict subset of another live space.
C1_Maximality ==
    \A i, j \in 1..Len(spaces) : ~StrictSubset(spaces[i], spaces[j])

\* C2: after any sequence of add_block calls, each child inside a space live at
\* the call, no two placed AABBs strict-intersect.
C2_Disjoint ==
    \A i, j \in 1..Len(aabbs) : i < j => ~strict_intersects(aabbs[i], aabbs[j])

\* C3 as stated: occupied_volume is the sum of child.volume (l*w*h) over the
\* placed children, leaves and joined blocks alike.
C3_VolumeOfChildren ==
    cont.occupied_volume = SumSeq([i \in 1..Len(children) |-> children[i].volume], 1)

\* C3 amended: occupied_volume is the sum of child.occupied_volume over the
\* placed children; it is the sum of child.volume when every child is a leaf.
C3_OccupiedVolume ==
    /\ cont.occupied_volume
         = SumSeq([i \in 1..Len(children) |-> children[i].occupied_volume], 1)
    /\ (\A i \in 1..Len(children) : children[i] \in LeafBlocks(1) \cup LeafBlocks(2))
         => cont.occupied_volume
              = SumSeq([i \in 1..Len(aabbs) |-> AabbVolume(aabbs[i])], 1)

\* a joined child of fill ratio below 1 has been placed
C3_Witness ==
    /\ Len(children) >= 2
    /\ \E i \in 1..Len(children) : children[i].occupied_volume < children[i].volume

\* C4: every placed child AABB lies inside the container:
\* 0 <= xmin < xmax <= L, 0 <= ymin < ymax <= W, 0 <= zmin < zmax <= H.
C4_Containment ==
    \A i \in 1..Len(aabbs) :
        /\ 0 <= aabbs[i].xmin /\ aabbs[i].xmin < aabbs[i].xmax /\ aabbs[i].xmax <= cont.l
        /\ 0 <= aabbs[i].ymin /\ aabbs[i].ymin < aabbs[i].ymax /\ aabbs[i].ymax <= cont.w
        /\ 0 <= aabbs[i].zmin /\ aabbs[i].zmin < aabbs[i].zmax /\ aabbs[i].zmax <= cont.h

\* the container is full of children placed in spaces cut by earlier children
C4_Witness ==
    /\ Len(aabbs) = MaxPlaced
    /\ \E i \in 1..Len(aabbs) : aabbs[i].xmax = cont.l /\ aabbs[i].zmax = cont.h
    /\ \E i \in 1..Len(aabbs) : aabbs[i].xmin > 0 /\ aabbs[i].zmin > 0

-----------------------------------------------------------------------------
(* Properties of closest_space *)

Min3(a, b, c) == IF a <= b /\ a <= c THEN a ELSE IF b <= c THEN b ELSE c

\* one box at (0,0,0) in a container larger than it on every axis,
\* filling "origin", vertical stability on
FirstBoxAtOrigin ==
    /\ filling = "origin" /\ vertical_stability
    /\ Len(aabbs) = 1
    /\ aabbs[1].xmin = 0 /\ aabbs[1].ymin = 0 /\ aabbs[1].zmin = 0
    /\ aabbs[1].xmax < cont.l /\ aabbs[1].ymax < cont.w /\ aabbs[1].zmax < cont.h

\* the +x slab, the +y slab and the +z slab over the footprint of the first box
ThreeSlabs ==
    { <<aabbs[1].xmax, cont.l, 0, cont.w, 0, cont.h>>,
      <<0, cont.l, aabbs[1].ymax, cont.w, 0, cont.h>>,
      <<0, aabbs[1].xmax, 0, aabbs[1].ymax, aabbs[1].zmax, cont.h>> }

ThreeLiveSpaces ==
    /\ Len(spaces) = 3
    /\ { Coords(spaces[i]) : i \in 1..3 } = ThreeSlabs

\* C8 as stated: after that add_block exactly three live spaces remain and
\* closest_space returns the space of priority 0 with corner_point (0,0,0).
C8_ClosestIsOrigin ==
    (FirstBoxAtOrigin /\ ret # Unset) =>
        /\ ThreeLiveSpaces
        /\ ret.kind = "Space"
        /\ ret.space.manhattan = 0
        /\ ret.space.corner_point = <<0, 0, 0>>

\* C8 amended: after that add_block exactly three live spaces remain (+x, +y,
\* +z over the footprint) and closest_space returns a live space of priority
\* min(l, w, h) of the box, which is not 0, with its own min corner as
\* corner_point; priority 0 at corner (0,0,0) is what closest_space returns on
\* the empty container, before the add_block.
C8_ClosestAfterFirstBox ==
    /\ FirstBoxAtOrigin => ThreeLiveSpaces
    /\ (FirstBoxAtOrigin /\ ret # Unset) =>
          /\ ret.kind = "Space"
          /\ \E i \in 1..3 : spaces[i] = ret.space
          /\ ret.space.manhattan
               = Min3(AabbL(aabbs[1]), AabbW(aabbs[1]), AabbH(aabbs[1]))
          /\ ret.space.manhattan > 0
          /\ ret.space.corner_point
               = <<ret.space.xmin, ret.space.ymin, ret.space.zmin>>
    /\ (filling = "origin" /\ Len(aabbs) = 0 /\ ret # Unset) =>
          /\ ret.kind = "Space"
          /\ ret.space.manhattan = 0
          /\ ret.space.corner_point = <<0, 0, 0>>

\* closest_space has answered after a first box whose sides differ
C8_Witness ==
    /\ FirstBoxAtOrigin
    /\ ret # Unset
    /\ AabbL(aabbs[1]) > AabbW(aabbs[1])

C10_NoneReached == ret = None

-----------------------------------------------------------------------------
(* Properties of Block.join *)

\* the step is a call of join with an axis and a fill ratio that pass
JoinAccepts ==
    /\ jcall'[1] \in {"x", "y", "z"}
    /\ LET l == IF jcall'[1] = "x" THEN jself.l + jblock.l ELSE Max2(jself.l, jblock.l)
           w == IF jcall'[1] = "y" THEN jself.w + jblock.w ELSE Max2(jself.w, jblock.w)
           h == IF jcall'[1] = "z" THEN jself.h + jblock.h ELSE Max2(jself.h, jblock.h)
       IN  (jself.occupied_volume + jblock.occupied_volume) * jcall'[2][2]
              >= jcall'[2][1] * (l * w * h)

\* C5: join returns false and leaves every field of the receiver unchanged when
\* the axis is none of x, y, z or the fill ratio is below min_fr; in every
\* other case it returns true.
C5_JoinRejects ==
    [][ /\ ~JoinAccepts => (jret' = FALSE /\ jself' = jself)
        /\ JoinAccepts => jret' = TRUE ]_vars

\* join has returned false on a valid axis, for the fill ratio
C5_Witness == jcall # <<>> /\ jret = FALSE /\ jcall[1] \in {"x", "y", "z"}

\* join has returned false on an axis that is none of x, y, z
C5_WitnessAxis == jcall # <<>> /\ jret = FALSE /\ jcall[1] \notin {"x", "y", "z"}

\* C6: when join returns true the new dim on the stacking axis is the sum and
\* on the other axes the max of the two blocks' dims, so no dim and not the
\* volume shrinks; occupied_volume and weight are the sums, items the pointwise
\* sum, and the other block is not modified.
C6_JoinResult ==
    [][ jret' = TRUE =>
          /\ jself'.l = (IF jcall'[1] = "x" THEN jself.l + jblock.l ELSE Max2(jself.l, jblock.l))
          /\ jself'.w = (IF jcall'[1] = "y" THEN jself.w + jblock.w ELSE Max2(jself.w, jblock.w))
          /\ jself'.h = (IF jcall'[1] = "z" THEN jself.h + jblock.h ELSE Max2(jself.h, jblock.h))
          /\ jself'.l >= jself.l /\ jself'.l >= jblock.l
          /\ jself'.w >= jself.w /\ jself'.w >= jblock.w
          /\ jself'.h >= jself.h /\ jself'.h >= jblock.h
          /\ jself'.volume = jself'.l * jself'.w * jself'.h
          /\ jself'.volume >= jself.volume
          /\ jself'.occupied_volume = jself.occupied_volume + jblock.occupied_volume
          /\ jself'.weight = jself.weight + jblock.weight
          /\ DOMAIN jself'.items = (DOMAIN jself.items) \cup (DOMAIN jblock.items)
          /\ \A k \in DOMAIN jself'.items :
                jself'.items[k] = ItemGet(jself.items, k, 0) + ItemGet(jblock.items, k, 0)
          /\ jblock' = jblock ]_vars

\* join has returned true for blocks of different box types and sizes,
\* leaving part of the new volume empty
C6_Witness ==
    /\ jcall # <<>>
    /\ jret = TRUE
    /\ jself.occupied_volume < jself.volume
    /\ Cardinality(DOMAIN jself.items) = 2

-----------------------------------------------------------------------------
(* Properties of Aabb.subtract and Space.subtract *)

\* the unit cells of a box, named by their min corners
Cells(a) == (a.xmin..(a.xmax - 1)) \X (a.ymin..(a.ymax - 1)) \X (a.zmin..(a.zmax - 1))

IsAabb(a) == DOMAIN a = {"xmin", "xmax", "ymin", "ymax", "zmin", "zmax"}

\* the sum of the volumes of the returned pieces
SresVolume == SumSeq([i \in 1..Len(sres) |-> AabbVolume(sres[i])], 1)

\* vol(sA) - vol(sA intersect sB)
VolumeOutside == Cardinality(Cells(sA) \ Cells(sB))

\* the union of the returned pieces is exactly sA minus sB
SresCoversDifference ==
    /\ \A i \in 1..Len(sres) : IsAabb(sres[i])
    /\ UNION { Cells(sres[i]) : i \in 1..Len(sres) } = Cells(sA) \ Cells(sB)

ZIndex == 1 + (IF sB.xmax < sA.xmax THEN 1 ELSE 0) + (IF sB.ymax < sA.ymax THEN 1 ELSE 0)

\* the +x, +y, -x, -y and -z slabs of sA around sB, in the order of the list
FiveSlabs ==
       AppendIf(sB.xmax < sA.xmax, <<sB.xmax, sA.xmax, sA.ymin, sA.ymax, sA.zmin, sA.zmax>>)
    \o AppendIf(sB.ymax < sA.ymax, <<sA.xmin, sA.xmax, sB.ymax, sA.ymax, sA.zmin, sA.zmax>>)
    \o AppendIf(sB.xmin > sA.xmin, <<sA.xmin, sB.xmin, sA.ymin, sA.ymax, sA.zmin, sA.zmax>>)
    \o AppendIf(sB.ymin > sA.ymin, <<sA.xmin, sA.xmax, sA.ymin, sB.ymin, sA.zmin, sA.zmax>>)
    \o AppendIf(sB.zmin > sA.zmin, <<sA.xmin, sA.xmax, sA.ymin, sA.ymax, sA.zmin, sB.zmin>>)

\* the coordinates of the pieces of sres other than the one at index k
SresWithout(k) ==
    [i \in 1..(Len(sres) - 1) |-> Coords(sres[IF i < k THEN i ELSE i + 1])]

\* C9: when P.zmax < S.zmax, Space.subtract emits exactly one +z piece, from
\* P.zmax to S.zmax, over P's footprint with vertical stability on and over
\* S's footprint with it off; the other five slabs are the same either way.
C9_TopSlab ==
    (pc = "space_done" /\ sB.zmax < sA.zmax) =>
        /\ Len(sres) = Len(FiveSlabs) + 1
        /\ Coords(sres[ZIndex])
             = (IF vertical_stability
                THEN <<sB.xmin, sB.xmax, sB.ymin, sB.ymax, sB.zmax, sA.zmax>>
                ELSE <<sA.xmin, sA.xmax, sA.ymin, sA.ymax, sB.zmax, sA.zmax>>)
        /\ SresWithout(ZIndex) = FiveSlabs

\* Space.subtract has cut a box strictly inside the space, stability on
C9_Witness ==
    /\ pc = "space_done"
    /\ vertical_stability
    /\ Len(sres) = 6
    /\ AabbL(sB) < AabbL(sA)

-----------------------------------------------------------------------------
(* Properties of BlockList and Block.is_constructible *)

\* the axis of the box that rot puts on the vertical axis of the block is
\* permitted by its rot_* flag
Admissible(item, rot) ==
    \/ rot[3] = "l" /\ item.rot_l
    \/ rot[3] = "w" /\ item.rot_w
    \/ rot[3] = "h" /\ item.rot_h

\* (l, w, h) of the box in orientation rot
Oriented(item, rot) ==
    <<RotDim(item, rot[1]), RotDim(item, rot[2]), RotDim(item, rot[3])>>

\* the blocks of the list that hold one box of this type
BlocksOf(item) ==
    { i \in 1..Len(blist) : blist[i].items = [k \in {item.id} |-> 1] }

\* the number of those blocks whose (l, w, h) is d
EmittedWith(item, d) ==
    Cardinality({ i \in BlocksOf(item) : <<blist[i].l, blist[i].w, blist[i].h>> = d })

SimpleBlocksDone == pc = "list_done" /\ bcall.type = "simple_blocks"

\* C11 as stated: generate_simple_blocks emits one block for an orientation if
\* and only if the orientation is admissible (the axis on the vertical axis is
\* permitted by its flag); with the three flags true these are six blocks, the
\* six permutations of the dims.
C11_AdmissibleOnly ==
    SimpleBlocksDone =>
        \A n \in 1..Len(items) :
            LET item == items[n].boxtype
            IN  /\ \A r \in Rots :
                     EmittedWith(item, Oriented(item, r))
                       = Cardinality({ q \in Rots : /\ Admissible(item, q)
                                                    /\ Oriented(item, q) = Oriented(item, r) })
                /\ Cardinality(BlocksOf(item))
                     = Cardinality({ q \in Rots : Admissible(item, q) })
                /\ (item.rot_l /\ item.rot_w /\ item.rot_h)
                     => Cardinality(BlocksOf(item)) = 6

\* C11 amended: generate_simple_blocks emits one block for an orientation if
\* and only if the orientation is lwh, the box as given, or is admissible; lwh
\* is emitted whatever rot_h is. With the three flags true these are six
\* blocks, the six permutations of the dims.
C11_GivenOrAdmissible ==
    SimpleBlocksDone =>
        \A n \in 1..Len(items) :
            LET item == items[n].boxtype
                emitted == { q \in Rots : q = <<"l", "w", "h">> \/ Admissible(item, q) }
            IN  /\ \A r \in Rots :
                     EmittedWith(item, Oriented(item, r))
                       = Cardinality({ q \in emitted : Oriented(item, q) = Oriented(item, r) })
                /\ Cardinality(BlocksOf(item)) = Cardinality(emitted)
                /\ (item.rot_l /\ item.rot_w /\ item.rot_h)
                     => Cardinality(BlocksOf(item)) = 6

\* simple blocks were generated for two box types, one whose height may not be
\* vertical and whose length may, one with every flag set
C11_Witness ==
    /\ SimpleBlocksDone
    /\ Len(items) = 2
    /\ ~items[1].boxtype.rot_h /\ items[1].boxtype.rot_l
    /\ items[2].boxtype.rot_l /\ items[2].boxtype.rot_w /\ items[2].boxtype.rot_h
    /\ Len(blist) = 9

\* C12: is_constructible(items) returns true if and only if for every box type
\* k of the block, block.items[k] <= items.get(k, 0); it returns false, and
\* does not raise, when a box type the block needs is absent from the pool.
C12_Constructible ==
    pc = "constructible_done" =>
        /\ bret \in { [ret |-> TRUE], [ret |-> FALSE] }
        /\ bret = [ret |-> TRUE]
             <=> \A k \in DOMAIN bcall.block.items :
                    bcall.block.items[k] <= PoolGet(items, k, 0)

\* the number of simple blocks of the pool: one per rot string of each box type
RECURSIVE SimpleCount(_, _)
SimpleCount(its, i) ==
    IF i > Len(its) THEN 0
    ELSE Len(SimpleRots(its[i].boxtype)) + SimpleCount(its, i + 1)

GeneralBlocksDone == pc = "list_done" /\ bcall.type = "general_blocks"

\* C15: for every item pool, container, min_fr and max_bl, generate_general_blocks
\* ends without error; every block added beyond the simple blocks is then
\* constructible from the pool and fits the container on each axis, and the
\* list is not longer than max_bl unless the simple blocks alone reach it.
C15_GeneralBlocks ==
    GeneralBlocksDone =>
        /\ bret = None
        /\ \A i \in (SimpleCount(items, 1) + 1)..Len(blist) :
              /\ \A o \in KeyOrders(DOMAIN blist[i].items) :
                    is_constructible(blist[i], o, items, 1) = [ret |-> TRUE]
              /\ blist[i].l <= ListCont.l /\ blist[i].w <= ListCont.w /\ blist[i].h <= ListCont.h
        /\ Len(blist) <= bcall.max_bl \/ SimpleCount(items, 1) >= bcall.max_bl

-----------------------------------------------------------------------------
(* Properties of BlockList.best *)

\* the blocks on which every constraint holds
Feasible == { i \in 1..Len(blist) : AllCtr(blist[i]) }

\* those whose value is above float("-inf")
Eligible == { i \in Feasible : blist[i].ev > NegInf }

\* bret is the earliest block of the greatest value among the blocks of set S,
\* and None if and only if S is empty
BestAmong(S) ==
    /\ bret = None <=> S = {}
    /\ bret # None =>
          /\ bret.kind = "Block"
          /\ bret.index \in S
          /\ \A j \in S : blist[j].ev <= blist[bret.index].ev
          /\ \A j \in S : j < bret.index => blist[j].ev < blist[bret.index].ev

C13_WitnessNone == pc = "best_done" /\ bret = None /\ Feasible # {}

-----------------------------------------------------------------------------
(* Properties of the live spaces after add_block calls *)

\* the Space of the coordinates of s built with the container as its block
InContainerFrame(s) ==
    SpaceInit(s.xmin, s.xmax, s.ymin, s.ymax, s.zmin, s.zmax, BlockRef("container", cont))

\* C14: after any sequence of add_block calls every live space carries the
\* container as its container reference, and its priority and corner_point are
\* those computed from the container's dims L, W, H under the current filling.
C14_ContainerFrame ==
    \A i \in 1..Len(spaces) :
        /\ spaces[i].container_block = BlockRef("container", cont)
        /\ spaces[i].manhattan = InContainerFrame(spaces[i]).manhattan
        /\ spaces[i].corner_point = InContainerFrame(spaces[i]).corner_point

\* u is a subsequence of v: the elements of u occur in v, in the same order
RECURSIVE IsSubseq(_, _)
IsSubseq(u, v) ==
    IF u = <<>> THEN TRUE
    ELSE IF v = <<>> THEN FALSE
    ELSE IF Head(u) = Head(v) THEN IsSubseq(Tail(u), Tail(v))
    ELSE IsSubseq(u, Tail(v))

\* the box the step placed
Placed == aabbs'[Len(aabbs')]

\* what crop(P) must leave alone: a space that touches P without strictly
\* intersecting it is still live with the same coordinates; the spaces that do
\* not touch P are still live, unchanged, in the same relative order; the
\* live set is unchanged if no space touches P
CropKeeps(P) ==
    /\ \A i \in 1..Len(spaces) :
          (intersects(spaces[i], P) /\ ~strict_intersects(spaces[i], P))
             => \E j \in 1..Len(spaces') : Coords(spaces'[j]) = Coords(spaces[i])
    /\ IsSubseq(SelectSeq(spaces, LAMBDA s : ~intersects(s, P)), spaces')
    /\ (\A i \in 1..Len(spaces) : ~intersects(spaces[i], P)) => spaces' = spaces

\* C16: after crop(P), every space live before the call that touches P without
\* strictly intersecting it is still live with the same coordinates, every
\* space that did not touch P is still live, unchanged and in the same
\* relative order, and the live set is unchanged if no live space touches P.
C16_CropFrame ==
    [][ Len(aabbs') = Len(aabbs) + 1 => CropKeeps(Placed) ]_vars

\* C17: under filling "bottom-up", after any sequence of add_block calls,
\* closest_space returns a live space whose zmin is least among the live
\* spaces, whatever the horizontal positions.
C17_LowestLayer ==
    (filling = "bottom-up" /\ ret # Unset /\ ret # None) =>
        \A i \in 1..Len(spaces) : ret.space.zmin <= spaces[i].zmin

\* C18: after any sequence of add_block calls, each child inside a space live
\* at the call, at any position in it and under either vertical_stability, no
\* live space strict-intersects a placed child: every live space is empty.
C18_LiveSpacesEmpty ==
    \A i \in 1..Len(spaces) : \A j \in 1..Len(aabbs) :
        ~strict_intersects(spaces[i], aabbs[j])

\* the unit cells of the container, of the placed children, of the live spaces
ContCells == (0..(cont.l - 1)) \X (0..(cont.w - 1)) \X (0..(cont.h - 1))
PlacedCells == UNION { Cells(aabbs[j]) : j \in 1..Len(aabbs) }
LiveCells == UNION { Cells(spaces[i]) : i \in 1..Len(spaces) }

\* C19: with vertical_stability off and no call of filter, after any sequence
\* of add_block calls (each child inside a live space) the union of the live
\* spaces is the container's interior minus the union of the placed children:
\* no empty unit cell is lost from the free space.
C19_ExactFreeSpace ==
    ~vertical_stability => LiveCells = ContCells \ PlacedCells

\* three children are placed, stability off, one of them off the floor and
\* away from the walls x = 0 and y = 0, and free cells remain
C19_Witness ==
    /\ ~vertical_stability
    /\ Len(aabbs) = MaxPlaced
    /\ \E j \in 1..Len(aabbs) : aabbs[j].zmin > 0 /\ aabbs[j].xmin > 0
    /\ Len(spaces) >= 2

====
